---- MODULE Spec2Model ----
(***************************************************************************)
(* dronetalker: a Flask service holding three SQLite-backed mailboxes      *)
(* (latest_target, command_buffer, drone_logs) that a console and a        *)
(* vehicle poll.  The model follows src/dronetalker.py: every request      *)
(* handler is a small process whose steps are the handler's accesses to    *)
(* the shared state (the database and the wall clock).                     *)
(***************************************************************************)
EXTENDS Integers, Sequences, FiniteSets, TLC

(***************************************************************************)
(* Configuration and fixed numbers of the program.                         *)
(***************************************************************************)
APP_TOKEN == "CHANGE_ME"
MAX_AGE_SECONDS == 60
MAX_ACCURACY_M == 50
CMD_FRESH_SECONDS == 10
LOG_KEEP == 50
STATUS_LIMIT == 20

(***************************************************************************)
(* Bounds of the model.                                                    *)
(***************************************************************************)
\* The clock counts ticks; int(time.time()) truncates it to whole seconds.
TicksPerSecond == 2
\* No request that writes a log row starts once this many ids were issued.
MaxSeq == 2
\* The log-filling specification issues this many ids beyond LOG_KEEP.
MaxOverflow == 1
\* The sequential feed posts this many status messages, one after the other.
MaxAppends == 60

Procs == {"p1", "p2"}
NoProc == "none"

\* The instants (in ticks) the wall clock takes: around the position ceiling,
\* around the command window, and both together.
Sec(n) == n * TicksPerSecond
PosInstants == {0, 1, Sec(5), Sec(60), Sec(60) + 1, Sec(61)}
CmdInstants == {0, 1, Sec(5), Sec(9) + 1, Sec(10), Sec(10) + 1, Sec(15)}
AllInstants == {0, Sec(10), Sec(61)}
RaceInstants == {0, Sec(1), Sec(2)}

(***************************************************************************)
(* Python and SQLite values.                                               *)
(***************************************************************************)
\* A JSON value of a request body: a number, a string, or absent/null.
JNum(n) == [t |-> "num", n |-> n, s |-> ""]
JStr(s) == [t |-> "str", n |-> 0, s |-> s]
JNull == [t |-> "null", n |-> 0, s |-> ""]

\* A Python float: a finite number or NaN.  None is PyNone.
Fin(n) == [nan |-> FALSE, v |-> n]
NaN == [nan |-> TRUE, v |-> 0]

\* An SQLite column value: NULL or a value.
SqlNull == [null |-> TRUE, v |-> 0]
SqlNullText == [null |-> TRUE, v |-> ""]
SqlVal(x) == [null |-> FALSE, v |-> x]

\* sqlite3 binds a float NaN as NULL; every other float is stored as it is.
BindReal(f) == IF f.nan THEN SqlNull ELSE SqlVal(f.v)

DigitStr(d) == <<"0", "1", "2", "3", "4", "5", "6", "7", "8", "9">>[d + 1]

RECURSIVE NatStr(_)
NatStr(n) == IF n < 10 THEN DigitStr(n) ELSE NatStr(n \div 10) \o DigitStr(n % 10)

IntStr(n) == IF n < 0 THEN "-" \o NatStr(-n) ELSE NatStr(n)

\* The strings float() parses, with their values; any other string raises.
FloatLiterals == {"47.0", "nan"}
ParseFloat(s) == IF s = "47.0" THEN Fin(47) ELSE NaN

\* float(x) raises (TypeError, ValueError) or returns a float.
FloatRaises(j) ==
    \/ j.t = "null"
    \/ j.t = "str" /\ j.s \notin FloatLiterals

PyFloat(j) == IF j.t = "num" THEN Fin(j.n) ELSE ParseFloat(j.s)

\* str(x): a string is itself, a number its digits, None is "None".
PyStr(j) ==
    IF j.t = "str" THEN j.s
    ELSE IF j.t = "num" THEN IntStr(j.n)
    ELSE "None"

\* f"{x:.5f}" and f"{x:.1f}" of a float holding a whole number, or nan.
Fmt5(f) == IF f.nan THEN "nan" ELSE IntStr(f.v) \o ".00000"
Fmt1(f) == IF f.nan THEN "nan" ELSE IntStr(f.v) \o ".0"

\* acc > MAX_ACCURACY_M: every comparison with NaN is False.
FloatGT(f, m) == ~f.nan /\ f.v > m

\* Python's None and a present value.
PyNone == [none |-> TRUE]
Some(x) == [none |-> FALSE, v |-> x]

\* `if msg:` -- None, "" and 0 are falsy.
Truthy(j) ==
    \/ j.t = "str" /\ j.s # ""
    \/ j.t = "num" /\ j.n # 0

\* A value bound to a TEXT column is stored as text.
BindText(j) == IF j.t = "num" THEN IntStr(j.n) ELSE j.s

(***************************************************************************)
(* State.                                                                  *)
(***************************************************************************)
VARIABLES
    clock,          \* wall clock, in ticks
    latest_target,  \* the row id = 1 of latest_target
    command_buffer, \* the row id = 1 of command_buffer
    drone_logs,     \* the committed rows of drone_logs
    seq,            \* sqlite_sequence of drone_logs (AUTOINCREMENT), committed
    lock,           \* the connection holding the database write lock
    txn_logs,       \* drone_logs as the open write transaction sees it
    txn_seq,        \* sqlite_sequence as the open write transaction sees it
    pc,             \* where each request handler stands
    loc,            \* the handler's local variables
    resp,           \* the response of a finished handler
    go_hist,        \* history: the request behind the committed latest_target row
    cmd_hist,       \* history: the request behind the committed command_buffer row
    stale_seen      \* history: /latest answered 410 for the committed row

vars == <<clock, latest_target, command_buffer, drone_logs, seq, lock,
          txn_logs, txn_seq, pc, loc, resp, go_hist, cmd_hist, stale_seen>>

db == <<latest_target, command_buffer, drone_logs, seq, lock, txn_logs, txn_seq>>
hist == <<go_hist, cmd_hist, stale_seen>>

NoLoc == [op |-> "none"]
NoResp == [code |-> 0]
NoHist == [any |-> FALSE]

\* int(time.time())
TimeNow == clock \div TicksPerSecond

EmptyTarget ==
    [lat |-> SqlNull, lon |-> SqlNull, accuracy |-> SqlNull,
     created_at |-> SqlNull, request_id |-> SqlNullText]

\* init_db on a fresh database file.
Init ==
    /\ clock = 0
    /\ latest_target = EmptyTarget
    /\ command_buffer = [command |-> "NONE", created_at |-> 0]
    /\ drone_logs = {}
    /\ seq = 0
    /\ lock = NoProc
    /\ txn_logs = {}
    /\ txn_seq = 0
    /\ pc = [p \in Procs |-> "idle"]
    /\ loc = [p \in Procs |-> NoLoc]
    /\ resp = [p \in Procs |-> NoResp]
    /\ go_hist = NoHist
    /\ cmd_hist = NoHist
    /\ stale_seen = FALSE

(***************************************************************************)
(* The environment: time passes, requests arrive, responses leave.         *)
(***************************************************************************)
Tick(instants) ==
    /\ \E t \in instants : t > clock /\ clock' = t
    /\ UNCHANGED <<db, pc, loc, resp, hist>>

Tokens == {APP_TOKEN, ""}

Finish(p, r) ==
    /\ pc' = [pc EXCEPT ![p] = "done"]
    /\ resp' = [resp EXCEPT ![p] = r]

Unauthorized == [code |-> 401, ok |-> FALSE, error |-> "unauthorized"]

\* The handler's response was sent; the worker takes the next request.
Return(p) ==
    /\ pc[p] = "done"
    /\ pc' = [pc EXCEPT ![p] = "idle"]
    /\ loc' = [loc EXCEPT ![p] = NoLoc]
    /\ resp' = [resp EXCEPT ![p] = NoResp]
    /\ UNCHANGED <<clock, db, hist>>

(***************************************************************************)
(* drone_logs: add_log_entry, get_recent_logs, /drone/status.              *)
(***************************************************************************)
\* SELECT id FROM drone_logs ORDER BY id DESC LIMIT n
TopIds(rows, n) ==
    {x.id : x \in {r \in rows : Cardinality({y \in rows : y.id > r.id}) < n}}

\* The cleanup keeping the LOG_KEEP oldest rows (ORDER BY id ASC).
TrimLogsOldest(rows) ==
    {r \in rows : Cardinality({y \in rows : y.id < r.id}) < LOG_KEEP}

\* DELETE FROM drone_logs WHERE id NOT IN (the LOG_KEEP greatest ids)
TrimLogs(rows) == {r \in rows : r.id \in TopIds(rows, LOG_KEEP)}

\* add_log_entry evaluates int(time.time()) before it runs the INSERT.
LogTime(p) ==
    /\ pc[p] = "log_ts"
    /\ loc' = [loc EXCEPT ![p].log_ts = TimeNow]
    /\ pc' = [pc EXCEPT ![p] = "log_ins"]
    /\ UNCHANGED <<clock, db, resp, hist>>

\* The row the INSERT adds, with the next AUTOINCREMENT id.
NewLogRow(p) == [id |-> seq + 1, message |-> loc[p].msg, created_at |-> loc[p].log_ts]

\* Autocommit: every statement is visible at once.
VisibleDirty(committed, pending) == pending

\* What the other connections see of an open write transaction: nothing.
Visible(committed, pending) == committed

\* INSERT: opens the write transaction (waits for the lock) and adds the row.
LogInsert(p) ==
    /\ pc[p] = "log_ins"
    /\ lock = NoProc
    /\ lock' = p
    /\ txn_seq' = seq + 1
    /\ txn_logs' = drone_logs \cup {NewLogRow(p)}
    /\ drone_logs' = Visible(drone_logs, drone_logs \cup {NewLogRow(p)})
    /\ pc' = [pc EXCEPT ![p] = "log_del"]
    /\ UNCHANGED <<clock, latest_target, command_buffer, seq, loc, resp, hist>>

\* DELETE, in the same transaction.
LogDelete(p) ==
    /\ pc[p] = "log_del"
    /\ lock = p
    /\ txn_logs' = TrimLogs(txn_logs)
    /\ drone_logs' = Visible(drone_logs, TrimLogs(txn_logs))
    /\ pc' = [pc EXCEPT ![p] = "log_commit"]
    /\ UNCHANGED <<clock, latest_target, command_buffer, seq, lock,
                   txn_seq, loc, resp, hist>>

\* conn.commit(): the transaction's rows become the committed rows; the
\* handler then returns its success response.
LogCommit(p) ==
    /\ pc[p] = "log_commit"
    /\ lock = p
    /\ drone_logs' = txn_logs
    /\ seq' = txn_seq
    /\ lock' = NoProc
    /\ txn_logs' = {}
    /\ txn_seq' = 0
    /\ Finish(p, loc[p].reply)
    /\ UNCHANGED <<clock, latest_target, command_buffer, loc, hist>>

\* The row of rank i when rows are ordered by id, greatest first.
RowOfRank(rows, i) == CHOOSE r \in rows : Cardinality({y \in rows : y.id > r.id}) = i - 1

\* SELECT message, created_at FROM drone_logs ORDER BY id DESC LIMIT limit
RecentLogs(rows, limit) ==
    LET n == IF Cardinality(rows) < limit THEN Cardinality(rows) ELSE limit IN
    [i \in 1..n |-> LET r == RowOfRank(rows, i) IN
                    [message |-> r.message, time |-> r.created_at]]

StatusMsgs == {JStr("m1"), JStr(""), JNull, JNum(0)}

\* post_status: the token, then add_log_entry(msg) if msg is truthy.
PostStatus(p, token, msg) ==
    /\ pc[p] = "idle"
    /\ IF token # APP_TOKEN
       THEN /\ Finish(p, Unauthorized)
            /\ loc' = [loc EXCEPT ![p] = [op |-> "post_status", token |-> token, data |-> msg]]
       ELSE IF ~Truthy(msg)
       THEN /\ Finish(p, [code |-> 200, ok |-> TRUE])
            /\ loc' = [loc EXCEPT ![p] = [op |-> "post_status", token |-> token, data |-> msg]]
       ELSE /\ pc' = [pc EXCEPT ![p] = "log_ts"]
            /\ loc' = [loc EXCEPT ![p] =
                        [op |-> "post_status", token |-> token, data |-> msg,
                         msg |-> BindText(msg), reply |-> [code |-> 200, ok |-> TRUE],
                         log_ts |-> 0]]
            /\ UNCHANGED resp
    /\ UNCHANGED <<clock, db, hist>>

\* get_status: no token is asked for; get_recent_logs(limit=20).
GetStatus(p, token) ==
    /\ pc[p] = "idle"
    /\ Finish(p, [code |-> 200, ok |-> TRUE, logs |-> RecentLogs(drone_logs, STATUS_LIMIT)])
    /\ loc' = [loc EXCEPT ![p] = [op |-> "get_status", token |-> token]]
    /\ UNCHANGED <<clock, db, hist>>

(***************************************************************************)
(* latest_target: POST /go, GET /latest.                                   *)
(***************************************************************************)
GoBody(lat, lon, acc, rid) ==
    [lat |-> lat, lon |-> lon, accuracy |-> acc, request_id |-> rid]

\* Request bodies: two good positions, one off the globe, NaN without a
\* request_id, and the rejected ones: poor accuracies, garbage, a missing field.
GoBodies ==
    { GoBody(JNum(47), JNum(8), JNum(5), JStr("r1")),
      GoBody(JNum(-90), JNum(180), JNum(50), JStr("r2")),
      GoBody(JNum(91), JNum(8), JNum(5), JStr("r3")),
      GoBody(JStr("nan"), JNum(8), JNum(5), JNull),
      GoBody(JNum(47), JNum(8), JNum(51), JStr("r5")),
      GoBody(JNum(47), JNum(-181), JNum(51), JStr("r6")),
      GoBody(JStr("47.0"), JNum(8), JNum(51), JStr("r7")),
      GoBody(JStr("abc"), JNum(8), JNum(5), JStr("r8")),
      GoBody(JNum(47), JNull, JNum(5), JStr("r9")) }

\* The accuracy compared with the wrong ceiling.
AccuracyTooPoorWrongLimit(acc) == FloatGT(acc, MAX_AGE_SECONDS)

\* The accuracy check of go(): acc > MAX_ACCURACY_M.
AccuracyTooPoor(acc) == FloatGT(acc, MAX_ACCURACY_M)

\* go() up to set_latest_target's int(time.time()): the token, the parse, the
\* accuracy ceiling.  Nothing but the accuracy is compared with a limit.
GoBegin(p, token, data) ==
    /\ pc[p] = "idle"
    /\ IF token # APP_TOKEN
       THEN /\ Finish(p, Unauthorized)
            /\ loc' = [loc EXCEPT ![p] = [op |-> "go", token |-> token, data |-> data]]
       ELSE IF FloatRaises(data.lat) \/ FloatRaises(data.lon) \/ FloatRaises(data.accuracy)
       THEN /\ Finish(p, [code |-> 400, ok |-> FALSE, error |-> "invalid data"])
            /\ loc' = [loc EXCEPT ![p] = [op |-> "go", token |-> token, data |-> data]]
       ELSE IF AccuracyTooPoor(PyFloat(data.accuracy))
       THEN /\ Finish(p, [code |-> 400, ok |-> FALSE,
                         error |-> "gps poor (" \o Fmt1(PyFloat(data.accuracy)) \o "m)"])
            /\ loc' = [loc EXCEPT ![p] = [op |-> "go", token |-> token, data |-> data]]
       ELSE /\ pc' = [pc EXCEPT ![p] = "go_upd"]
            /\ loc' = [loc EXCEPT ![p] =
                        [op |-> "go", token |-> token, data |-> data,
                         lat |-> PyFloat(data.lat), lon |-> PyFloat(data.lon),
                         acc |-> PyFloat(data.accuracy), rid |-> PyStr(data.request_id),
                         ts |-> TimeNow, at |-> clock,
                         msg |-> "New Target Received: " \o Fmt5(PyFloat(data.lat))
                                    \o ", " \o Fmt5(PyFloat(data.lon)),
                         reply |-> [code |-> 200, ok |-> TRUE], log_ts |-> 0]]
            /\ UNCHANGED resp
    /\ UNCHANGED <<clock, db, hist>>

\* The UPDATE with lat and lon bound in the wrong order.
TargetRowSwapped(lat, lon, acc, ts, rid) ==
    [lat |-> BindReal(lon), lon |-> BindReal(lat), accuracy |-> BindReal(acc),
     created_at |-> SqlVal(ts), request_id |-> SqlVal(rid)]

\* An UPDATE of the coordinates alone.
TargetRowPartial(lat, lon, acc, ts, rid) ==
    [latest_target EXCEPT !.lat = BindReal(lat), !.lon = BindReal(lon)]

\* The row set_latest_target writes.
TargetRow(lat, lon, acc, ts, rid) ==
    [lat |-> BindReal(lat), lon |-> BindReal(lon), accuracy |-> BindReal(acc),
     created_at |-> SqlVal(ts), request_id |-> SqlVal(rid)]

\* set_latest_target: the UPDATE and its commit.
SetLatestTarget(p) ==
    /\ pc[p] = "go_upd"
    /\ lock = NoProc
    /\ latest_target' =
          TargetRow(loc[p].lat, loc[p].lon, loc[p].acc, loc[p].ts, loc[p].rid)
    /\ go_hist' = [any |-> TRUE, data |-> loc[p].data, at |-> loc[p].at]
    /\ stale_seen' = FALSE
    /\ pc' = [pc EXCEPT ![p] = "log_ts"]
    /\ UNCHANGED <<clock, command_buffer, drone_logs, seq, lock, txn_logs, txn_seq,
                   loc, resp, cmd_hist>>

\* get_latest_target: the SELECT; None when lat IS NULL.
GetLatestTarget(row) ==
    IF row.lat.null THEN PyNone
    ELSE Some([lat |-> row.lat, lon |-> row.lon, accuracy |-> row.accuracy,
               created_at |-> row.created_at, request_id |-> row.request_id])

\* latest() up to and including get_latest_target().
LatestBegin(p, token) ==
    /\ pc[p] = "idle"
    /\ IF token # APP_TOKEN
       THEN /\ Finish(p, Unauthorized)
            /\ loc' = [loc EXCEPT ![p] = [op |-> "latest", token |-> token]]
       ELSE IF GetLatestTarget(latest_target).none
       THEN /\ Finish(p, [code |-> 404, ok |-> FALSE, error |-> "no target"])
            /\ loc' = [loc EXCEPT ![p] =
                        [op |-> "latest", token |-> token,
                         after |-> go_hist, after_stale |-> stale_seen]]
       ELSE /\ pc' = [pc EXCEPT ![p] = "latest_age"]
            /\ loc' = [loc EXCEPT ![p] =
                        [op |-> "latest", token |-> token,
                         tgt |-> GetLatestTarget(latest_target).v,
                         after |-> go_hist, after_stale |-> stale_seen]]
            /\ UNCHANGED resp
    /\ UNCHANGED <<clock, db, hist>>

\* if age > MAX_AGE_SECONDS
TargetStale(age) == age > MAX_AGE_SECONDS

\* A stale read that clears the slot.
AfterStalePurge(row) == EmptyTarget

\* What answering 410 does to the latest_target row: nothing.
AfterStale(row) == row

\* age = int(time.time()) - int(tgt["created_at"]), compared with the ceiling.
LatestAge(p) ==
    /\ pc[p] = "latest_age"
    /\ LET age == TimeNow - loc[p].tgt.created_at.v IN
       IF TargetStale(age)
       THEN /\ Finish(p, [code |-> 410, ok |-> FALSE, error |-> "target stale"])
            /\ latest_target' = AfterStale(latest_target)
            /\ stale_seen' = (stale_seen \/ GetLatestTarget(latest_target) = Some(loc[p].tgt))
       ELSE /\ Finish(p, [code |-> 200, ok |-> TRUE, target |-> loc[p].tgt,
                          age_seconds |-> age])
            /\ UNCHANGED <<latest_target, stale_seen>>
    /\ UNCHANGED <<clock, command_buffer, drone_logs, seq, lock, txn_logs, txn_seq,
                   loc, go_hist, cmd_hist>>

(***************************************************************************)
(* command_buffer: POST and GET /drone/cmd.                                *)
(***************************************************************************)
COMMANDS == {"HOVER", "RTH", "LAND"}

CmdInputs == {JStr("RTH"), JStr("LAND"), JStr("SPIN"), JStr("NONE"), JNull}

\* The stored sentinel taken for a command.
InvalidCommandLax(j) == ~(j.t = "str" /\ j.s \in COMMANDS \cup {"NONE"})

\* cmd not in ["HOVER", "RTH", "LAND"]
InvalidCommand(j) == ~(j.t = "str" /\ j.s \in COMMANDS)

\* The audit entry without the command's name.
CommandAuditBlank(cmd) == "Command Sent: "

\* f"Command Sent: {cmd}"
CommandAudit(cmd) == "Command Sent: " \o cmd

\* post_command up to set_command's int(time.time()).
PostCommandBegin(p, token, cmd) ==
    /\ pc[p] = "idle"
    /\ IF token # APP_TOKEN
       THEN /\ Finish(p, Unauthorized)
            /\ loc' = [loc EXCEPT ![p] = [op |-> "post_cmd", token |-> token, data |-> cmd]]
       ELSE IF InvalidCommand(cmd)
       THEN /\ Finish(p, [code |-> 400, ok |-> FALSE, error |-> "invalid command"])
            /\ loc' = [loc EXCEPT ![p] = [op |-> "post_cmd", token |-> token, data |-> cmd]]
       ELSE /\ pc' = [pc EXCEPT ![p] = "cmd_upd"]
            /\ loc' = [loc EXCEPT ![p] =
                        [op |-> "post_cmd", token |-> token, data |-> cmd,
                         cmd |-> cmd.s, ts |-> TimeNow, at |-> clock,
                         msg |-> CommandAudit(cmd.s),
                         reply |-> [code |-> 200, ok |-> TRUE, command |-> cmd.s],
                         log_ts |-> 0]]
            /\ UNCHANGED resp
    /\ UNCHANGED <<clock, db, hist>>

\* An UPDATE that leaves a pending command in place.
CommandRowKeepPending(cmd, ts) ==
    IF command_buffer.command # "NONE" THEN command_buffer
    ELSE [command |-> cmd, created_at |-> ts]

\* The row set_command writes.
CommandRow(cmd, ts) == [command |-> cmd, created_at |-> ts]

\* set_command: the UPDATE and its commit.
SetCommand(p) ==
    /\ pc[p] = "cmd_upd"
    /\ lock = NoProc
    /\ command_buffer' = CommandRow(loc[p].cmd, loc[p].ts)
    /\ cmd_hist' = [any |-> TRUE, cmd |-> loc[p].cmd, at |-> loc[p].at, committed |-> clock]
    /\ pc' = [pc EXCEPT ![p] = "log_ts"]
    /\ UNCHANGED <<clock, latest_target, drone_logs, seq, lock, txn_logs, txn_seq,
                   loc, resp, go_hist, stale_seen>>

\* get_command up to get_current_command's SELECT and `row[0] != "NONE"`.
GetCommandBegin(p, token) ==
    /\ pc[p] = "idle"
    /\ IF token # APP_TOKEN
       THEN /\ Finish(p, Unauthorized)
            /\ loc' = [loc EXCEPT ![p] = [op |-> "get_cmd", token |-> token]]
       ELSE IF command_buffer.command = "NONE"
       THEN /\ Finish(p, [code |-> 200, ok |-> TRUE, command |-> PyNone])
            /\ loc' = [loc EXCEPT ![p] =
                        [op |-> "get_cmd", token |-> token, row |-> command_buffer]]
       ELSE /\ pc' = [pc EXCEPT ![p] = "getcmd_age"]
            /\ loc' = [loc EXCEPT ![p] =
                        [op |-> "get_cmd", token |-> token, row |-> command_buffer]]
            /\ UNCHANGED resp
    /\ UNCHANGED <<clock, db, hist>>

\* The window with its end included.
CommandFreshInclusive(age) == age <= CMD_FRESH_SECONDS

\* (int(time.time()) - row[1]) < 10
CommandFresh(age) == age < CMD_FRESH_SECONDS

\* get_current_command's freshness test, and get_command's response.
GetCommandAge(p) ==
    /\ pc[p] = "getcmd_age"
    /\ IF CommandFresh(TimeNow - loc[p].row.created_at)
       THEN Finish(p, [code |-> 200, ok |-> TRUE, command |-> Some(loc[p].row.command)])
       ELSE Finish(p, [code |-> 200, ok |-> TRUE, command |-> PyNone])
    /\ UNCHANGED <<clock, db, loc, hist>>

(***************************************************************************)
(* Specifications.  Each takes the requests of one mailbox, at the         *)
(* instants that matter to it; Spec takes them all.                        *)
(***************************************************************************)
LogRoom(cap) == seq < cap

\* The log-filling specification takes positions and commands once the log
\* is about to overflow.
LogNearFull == seq >= LOG_KEEP - 1

NextPosition ==
    \/ Tick(PosInstants)
    \/ \E p \in Procs : Return(p)
    \/ \E p \in {"p1"} : \E token \in Tokens : \E data \in GoBodies :
          LogRoom(MaxSeq) /\ GoBegin(p, token, data)
    \/ \E p \in Procs : SetLatestTarget(p)
    \/ \E p \in Procs : LogTime(p)
    \/ \E p \in Procs : LogInsert(p)
    \/ \E p \in Procs : LogDelete(p)
    \/ \E p \in Procs : LogCommit(p)
    \/ \E p \in {"p2"} : \E token \in Tokens : LatestBegin(p, token)
    \/ \E p \in Procs : LatestAge(p)

SpecPosition == Init /\ [][NextPosition]_vars

NextCommand ==
    \/ Tick(CmdInstants)
    \/ \E p \in Procs : Return(p)
    \/ \E p \in {"p1"} : \E token \in Tokens : \E cmd \in CmdInputs :
          LogRoom(MaxSeq) /\ PostCommandBegin(p, token, cmd)
    \/ \E p \in Procs : SetCommand(p)
    \/ \E p \in Procs : LogTime(p)
    \/ \E p \in Procs : LogInsert(p)
    \/ \E p \in Procs : LogDelete(p)
    \/ \E p \in Procs : LogCommit(p)
    \/ \E p \in Procs : \E token \in Tokens : GetCommandBegin(p, token)
    \/ \E p \in Procs : GetCommandAge(p)

SpecCommand == Init /\ [][NextCommand]_vars

\* The requests that fill the log: status messages, then also a position and
\* a command.
NextLog ==
    \/ \E p \in Procs : Return(p)
    \/ \E p \in {"p1"} :
          LogNearFull /\ LogRoom(LOG_KEEP + MaxOverflow)
          /\ GoBegin(p, APP_TOKEN, GoBody(JNum(47), JNum(8), JNum(5), JStr("r1")))
    \/ \E p \in Procs : SetLatestTarget(p)
    \/ \E p \in {"p1"} :
          LogNearFull /\ LogRoom(LOG_KEEP + MaxOverflow)
          /\ PostCommandBegin(p, APP_TOKEN, JStr("RTH"))
    \/ \E p \in Procs : SetCommand(p)
    \/ \E p \in Procs : \E msg \in {JStr("m1"), JNull} :
          LogRoom(LOG_KEEP + MaxOverflow) /\ PostStatus(p, APP_TOKEN, msg)
    \/ \E p \in Procs : LogTime(p)
    \/ \E p \in Procs : LogInsert(p)
    \/ \E p \in Procs : LogDelete(p)
    \/ \E p \in Procs : LogCommit(p)
    \/ \E p \in {"p2"} : GetStatus(p, "")

SpecLog == Init /\ [][NextLog]_vars

\* The k-th message of the sequential feed.
FeedMsgs == [k \in 1..MaxAppends |-> "status " \o NatStr(k)]
FeedMsg(k) == FeedMsgs[k]

\* One vehicle posting distinct status messages one after the other, and a
\* console reading the feed at any moment.
NextFeed ==
    \/ \E p \in Procs : Return(p)
    \/ \E p \in {"p1"} :
          LogRoom(MaxAppends) /\ PostStatus(p, APP_TOKEN, JStr(FeedMsg(seq + 1)))
    \/ \E p \in Procs : LogTime(p)
    \/ \E p \in Procs : LogInsert(p)
    \/ \E p \in Procs : LogDelete(p)
    \/ \E p \in Procs : LogCommit(p)
    \/ \E p \in {"p2"} : GetStatus(p, APP_TOKEN)

SpecFeed == Init /\ [][NextFeed]_vars

\* Two handlers at once, each writing a position, over a few seconds.
RaceBodies ==
    { GoBody(JNum(47), JNum(8), JNum(5), JStr("r1")),
      GoBody(JNum(-90), JNum(180), JNum(50), JStr("r2")),
      GoBody(JStr("nan"), JNum(8), JNum(5), JNull) }

NextPositionRace ==
    \/ Tick(RaceInstants)
    \/ \E p \in Procs : Return(p)
    \/ \E p \in Procs : \E data \in RaceBodies :
          LogRoom(MaxSeq) /\ GoBegin(p, APP_TOKEN, data)
    \/ \E p \in Procs : SetLatestTarget(p)
    \/ \E p \in Procs : LogTime(p)
    \/ \E p \in Procs : LogInsert(p)
    \/ \E p \in Procs : LogDelete(p)
    \/ \E p \in Procs : LogCommit(p)

SpecPositionRace == Init /\ [][NextPositionRace]_vars

\* Two handlers at once, each writing a command or polling it.
NextCommandRace ==
    \/ Tick(RaceInstants)
    \/ \E p \in Procs : Return(p)
    \/ \E p \in Procs : \E cmd \in {JStr("RTH"), JStr("LAND")} :
          LogRoom(MaxSeq) /\ PostCommandBegin(p, APP_TOKEN, cmd)
    \/ \E p \in Procs : SetCommand(p)
    \/ \E p \in Procs : GetCommandBegin(p, APP_TOKEN)
    \/ \E p \in Procs : GetCommandAge(p)
    \/ \E p \in Procs : LogTime(p)
    \/ \E p \in Procs : LogInsert(p)
    \/ \E p \in Procs : LogDelete(p)
    \/ \E p \in Procs : LogCommit(p)

SpecCommandRace == Init /\ [][NextCommandRace]_vars

\* All the mailboxes together, with one request of each outcome.
Next ==
    \/ Tick(AllInstants)
    \/ \E p \in Procs : Return(p)
    \/ \E p \in {"p1"} : \E token \in Tokens :
          \E data \in { GoBody(JNum(47), JNum(8), JNum(5), JStr("r1")),
                        GoBody(JNum(47), JNum(8), JNum(51), JStr("r5")) } :
             LogRoom(MaxSeq) /\ GoBegin(p, token, data)
    \/ \E p \in Procs : SetLatestTarget(p)
    \/ \E p \in {"p2"} : \E token \in Tokens : LatestBegin(p, token)
    \/ \E p \in Procs : LatestAge(p)
    \/ \E p \in {"p1"} : \E token \in Tokens : \E cmd \in {JStr("RTH"), JStr("SPIN")} :
          LogRoom(MaxSeq) /\ PostCommandBegin(p, token, cmd)
    \/ \E p \in Procs : SetCommand(p)
    \/ \E p \in {"p2"} : \E token \in Tokens : GetCommandBegin(p, token)
    \/ \E p \in Procs : GetCommandAge(p)
    \/ \E p \in {"p1"} : \E token \in Tokens : \E msg \in StatusMsgs :
          LogRoom(MaxSeq) /\ PostStatus(p, token, msg)
    \/ \E p \in {"p2"} : \E token \in Tokens : GetStatus(p, token)
    \/ \E p \in Procs : LogTime(p)
    \/ \E p \in Procs : LogInsert(p)
    \/ \E p \in Procs : LogDelete(p)
    \/ \E p \in Procs : LogCommit(p)

Spec == Init /\ [][Next]_vars
(***************************************************************************)
(* Properties.                                                             *)
(***************************************************************************)
\* Handler p answers in this step a request of kind op that carried the token.
Answers(p, op) ==
    /\ pc[p] # "done"
    /\ pc'[p] = "done"
    /\ loc'[p].op = op
    /\ loc'[p].token = APP_TOKEN

\* Handler p holds the answer to a request of kind op that carried the token.
Answered(p, op) ==
    /\ pc[p] = "done"
    /\ loc[p].op = op
    /\ loc[p].token = APP_TOKEN

InRange(d) ==
    /\ d.lat.t = "num" /\ d.lat.n >= -90 /\ d.lat.n <= 90
    /\ d.lon.t = "num" /\ d.lon.n >= -180 /\ d.lon.n <= 180

OffTheGlobe(d) ==
    /\ d.lat.t = "num" /\ d.lon.t = "num"
    /\ (d.lat.n < -90 \/ d.lat.n > 90 \/ d.lon.n < -180 \/ d.lon.n > 180)

GpsPoor(n) == [code |-> 400, ok |-> FALSE, error |-> "gps poor (" \o IntStr(n) \o ".0m)"]

\* Every handler that got past its validation has answered.
NoWriteInProgress == \A q \in Procs : pc[q] \in {"idle", "done", "latest_age", "getcmd_age"}

\* C1: every /latest answered after an accepted /go answers 410 exactly when
\* age = now - created_at of the stored record exceeds MAX_AGE_SECONDS, and
\* otherwise answers with the stored record and that age.
C1_StaleIffTooOld ==
    [][\A p \in Procs :
         (Answers(p, "latest") /\ loc'[p].after.any /\ NoWriteInProgress) =>
            /\ resp'[p].code \in {200, 410}
            /\ resp'[p].code = 410 <=>
                  TimeNow - loc'[p].tgt.created_at.v > MAX_AGE_SECONDS
            /\ resp'[p].code = 200 =>
                  /\ resp'[p].target = loc'[p].tgt
                  /\ resp'[p].age_seconds = TimeNow - loc'[p].tgt.created_at.v]_vars

\* The same for every /latest that found a record in the slot.
C1_StaleIffTooOldOfRecord ==
    [][\A p \in Procs :
         (Answers(p, "latest") /\ resp'[p].code # 404) =>
            /\ resp'[p].code \in {200, 410}
            /\ resp'[p].code = 410 <=>
                  TimeNow - loc'[p].tgt.created_at.v > MAX_AGE_SECONDS
            /\ resp'[p].code = 200 =>
                  /\ resp'[p].target = loc'[p].tgt
                  /\ resp'[p].age_seconds = TimeNow - loc'[p].tgt.created_at.v]_vars

\* C2: a /latest that answers 410 leaves the latest_target row as it was, and
\* every /latest begun after a 410 for the row in the slot, and before the next
\* accepted /go, answers 410 too.
C2_StaleReadKeepsRecord ==
    [][\A p \in Procs :
         /\ (Answers(p, "latest") /\ resp'[p].code = 410) =>
               latest_target' = latest_target
         /\ (Answers(p, "latest") /\ loc'[p].after_stale) =>
               resp'[p].code = 410]_vars

C2_Witness ==
    \E p \in Procs :
        /\ Answered(p, "latest")
        /\ loc[p].after_stale
        /\ resp[p].code = 410
        /\ ~latest_target.lat.null

\* C3: a /go whose latitude is outside [-90, 90] or whose longitude is outside
\* [-180, 180] is rejected as out of range, whatever its accuracy, and leaves
\* the latest_target row as it was.
C3_OutOfRangeRejected ==
    [][\A p \in Procs :
         (loc'[p].op = "go" /\ loc'[p].token = APP_TOKEN /\ OffTheGlobe(loc'[p].data)) =>
            /\ pc'[p] = "done"
            /\ resp'[p].code = 400
            /\ resp'[p].error # "invalid data"
            /\ resp'[p] # GpsPoor(loc'[p].data.accuracy.n)
            /\ pc[p] = "idle" => latest_target' = latest_target]_vars

\* C4: a /go with numeric, in-range coordinates and an accuracy above
\* MAX_ACCURACY_M is answered 400 "gps poor", and the request changes neither
\* the latest_target row nor drone_logs.
C4_PoorAccuracyRejected ==
    [][\A p \in Procs :
         (/\ loc'[p].op = "go" /\ loc'[p].token = APP_TOKEN
          /\ InRange(loc'[p].data)
          /\ loc'[p].data.accuracy.t = "num"
          /\ loc'[p].data.accuracy.n > MAX_ACCURACY_M) =>
            /\ pc'[p] = "done"
            /\ resp'[p] = GpsPoor(loc'[p].data.accuracy.n)
            /\ pc[p] = "idle" =>
                  /\ latest_target' = latest_target
                  /\ drone_logs' = drone_logs
                  /\ seq' = seq]_vars

C4_Witness ==
    \E p \in Procs :
        /\ Answered(p, "go")
        /\ InRange(loc[p].data)
        /\ loc[p].data.accuracy = JNum(51)
        /\ resp[p].code = 400
        /\ ~latest_target.lat.null
        /\ drone_logs # {}

\* A /go body the position mailbox takes: numbers on the globe, an accuracy
\* within the ceiling, a request id that is a string.
ValidWrite(d) ==
    /\ InRange(d)
    /\ d.accuracy.t = "num" /\ d.accuracy.n <= MAX_ACCURACY_M
    /\ d.request_id.t = "str"

\* C5: a /latest that reads the row of an accepted valid /go, no later than
\* MAX_AGE_SECONDS after that write, answers 200 with the written lat, lon,
\* accuracy and request_id, and a created_at within one second of the write.
C5_WriteThenRead ==
    \A p \in Procs :
        (/\ Answered(p, "latest")
         /\ loc[p].after.any
         /\ ValidWrite(loc[p].after.data)
         /\ clock - loc[p].after.at <= Sec(MAX_AGE_SECONDS)) =>
           /\ resp[p].code = 200
           /\ resp[p].target.lat = SqlVal(loc[p].after.data.lat.n)
           /\ resp[p].target.lon = SqlVal(loc[p].after.data.lon.n)
           /\ resp[p].target.accuracy = SqlVal(loc[p].after.data.accuracy.n)
           /\ resp[p].target.request_id = SqlVal(loc[p].after.data.request_id.s)
           /\ Sec(resp[p].target.created_at.v) <= loc[p].after.at
           /\ loc[p].after.at < Sec(resp[p].target.created_at.v + 1)

C5_Witness ==
    \E p \in Procs :
        /\ Answered(p, "latest")
        /\ loc[p].after.any
        /\ ValidWrite(loc[p].after.data)
        /\ loc[p].after.at % TicksPerSecond # 0
        /\ clock = loc[p].after.at
        /\ resp[p].code = 200
        /\ resp[p].target.accuracy = SqlVal(MAX_ACCURACY_M)

\* C6: GET /drone/cmd answers "no command" exactly when the stored command is
\* NONE or its age exceeds CMD_FRESH_SECONDS, and answers the stored command
\* otherwise, an age of exactly CMD_FRESH_SECONDS included.
C6_NoneIffExpired ==
    [][\A p \in Procs :
         Answers(p, "get_cmd") =>
            LET row == loc'[p].row
                expired == row.command = "NONE"
                              \/ TimeNow - row.created_at > CMD_FRESH_SECONDS
            IN  resp'[p].command = IF expired THEN PyNone ELSE Some(row.command)]_vars

\* C7: before the first accepted POST /drone/cmd, and once more than
\* CMD_FRESH_SECONDS have passed since the last accepted one, every
\* GET /drone/cmd answers "no command".
C7_NoneOnceExpired ==
    [][\A p \in Procs :
         (/\ Answers(p, "get_cmd")
          /\ \/ ~cmd_hist.any
             \/ clock - cmd_hist.committed > Sec(CMD_FRESH_SECONDS)) =>
            resp'[p].command = PyNone]_vars

C7_Witness ==
    \E p \in Procs :
        /\ Answered(p, "get_cmd")
        /\ cmd_hist.any
        /\ loc[p].row = command_buffer
        /\ command_buffer.command = "RTH"
        /\ clock = cmd_hist.committed + Sec(CMD_FRESH_SECONDS) + 1
        /\ resp[p].command = PyNone

\* C8: no step of a GET /drone/cmd changes the command_buffer row, and every
\* GET /drone/cmd that reads the row of the last accepted POST within
\* CMD_FRESH_SECONDS of that write answers its command.
C8_ReadsDoNotConsume ==
    [][\A p \in Procs :
         /\ (pc'[p] # pc[p] /\ loc'[p].op = "get_cmd") =>
               command_buffer' = command_buffer
         /\ (/\ Answers(p, "get_cmd")
             /\ cmd_hist.any
             /\ loc'[p].row = command_buffer
             /\ clock - cmd_hist.at < Sec(CMD_FRESH_SECONDS)) =>
               resp'[p].command = Some(cmd_hist.cmd)]_vars

\* C9: a POST /drone/cmd whose command is not HOVER, RTH or LAND is answered
\* 400 "invalid command" and leaves the command_buffer row as it was.
C9_InvalidCommandRejected ==
    [][\A p \in Procs :
         (/\ loc'[p].op = "post_cmd" /\ loc'[p].token = APP_TOKEN
          /\ loc'[p].data \notin {JStr("HOVER"), JStr("RTH"), JStr("LAND")}) =>
            /\ pc'[p] = "done"
            /\ resp'[p] = [code |-> 400, ok |-> FALSE, error |-> "invalid command"]
            /\ pc[p] = "idle" => command_buffer' = command_buffer]_vars

C9_Witness ==
    \E p \in Procs :
        /\ Answered(p, "post_cmd")
        /\ loc[p].data = JStr("SPIN")
        /\ resp[p].code = 400
        /\ command_buffer.command = "RTH"
        /\ CommandFresh(TimeNow - command_buffer.created_at)

\* C10: the committed drone_logs, which is what every reader and every other
\* writer sees, never holds more than LOG_KEEP rows.
C10_LogBounded == Cardinality(drone_logs) <= LOG_KEEP

C10_Witness ==
    /\ seq >= LOG_KEEP
    /\ Cardinality(drone_logs) = LOG_KEEP
    /\ lock # NoProc
    /\ Cardinality(txn_logs) = LOG_KEEP + 1

\* The messages of a get_recent_logs result, in its order.
Messages(logs) == [i \in 1..Len(logs) |-> logs[i].message]

\* The n newest of the first k messages of the sequential feed, newest first.
NewestOfFeed(k, n) ==
    [i \in 1..(IF k < n THEN k ELSE n) |-> FeedMsg(k + 1 - i)]

\* C11: once more than LOG_KEEP messages were posted one after the other,
\* every commit leaves a log of which get_recent_logs(50) is exactly the 50
\* newest messages, newest first, and in which no row carries an earlier
\* message; and every GET /drone/status answers the 20 newest (after 60 posts:
\* messages 60 down to 41).
C11_NewestFiftyRetained ==
    [][/\ (seq' > LOG_KEEP /\ drone_logs' # drone_logs) =>
             /\ Messages(RecentLogs(drone_logs', LOG_KEEP)) = NewestOfFeed(seq', LOG_KEEP)
             /\ \A r \in drone_logs' :
                   \A k \in 1..(seq' - LOG_KEEP) : r.message # FeedMsg(k)
       /\ \A p \in Procs :
             (pc[p] = "idle" /\ pc'[p] = "done" /\ loc'[p].op = "get_status") =>
                Messages(resp'[p].logs) = NewestOfFeed(seq, STATUS_LIMIT)]_vars

C11_Witness ==
    /\ seq = 60
    /\ pc["p2"] = "done"
    /\ loc["p2"].op = "get_status"
    /\ Len(resp["p2"].logs) = STATUS_LIMIT
    /\ resp["p2"].logs[1].message = "status 60"
    /\ resp["p2"].logs[STATUS_LIMIT].message = "status 41"
    /\ \A r \in drone_logs : r.message \notin {FeedMsg(k) : k \in 1..10}

\* C12: a /latest answers 404 "no target" exactly when no /go was accepted
\* before it: 404 while nothing was ever written (rejected writes included),
\* and never 404 once a /go was accepted and answered.
C12_NotFoundIffNeverWritten ==
    [][\A p \in Procs :
         (Answers(p, "latest") /\ NoWriteInProgress) =>
            (resp'[p].code = 404 <=> ~loc'[p].after.any)]_vars

\* C14: the latest_target row is either the empty row of init_db or holds a
\* latitude in [-90, 90], a longitude in [-180, 180] and an accuracy of at
\* most MAX_ACCURACY_M.
C14_SlotHoldsValidRecord ==
    \/ latest_target = EmptyTarget
    \/ /\ ~latest_target.lat.null
       /\ latest_target.lat.v >= -90 /\ latest_target.lat.v <= 90
       /\ ~latest_target.lon.null
       /\ latest_target.lon.v >= -180 /\ latest_target.lon.v <= 180
       /\ ~latest_target.accuracy.null
       /\ latest_target.accuracy.v <= MAX_ACCURACY_M

\* Handler p takes a step of a request of kind op.
Steps(p, op) == pc'[p] # pc[p] /\ pc[p] # "done" /\ loc'[p].op = op

\* The LogCommit of handler p adds exactly the row of this message, with the
\* next id, and otherwise only evicts.
Appends(p, message) ==
    /\ seq' = seq + 1
    /\ \E r \in drone_logs' :
          /\ r.id = seq' /\ r.message = message
          /\ drone_logs' \ {r} \subseteq drone_logs

\* The original C16: no step of a POST /drone/cmd changes drone_logs or the
\* latest_target row.
C16_CommandLeavesLogAlone ==
    [][\A p \in Procs :
         Steps(p, "post_cmd") =>
            /\ drone_logs' = drone_logs
            /\ latest_target' = latest_target]_vars

\* C16 as amended: a POST /drone/cmd never changes the latest_target row; a
\* rejected one changes nothing; an accepted one overwrites command_buffer and
\* then appends exactly one row "Command Sent: <command>" to drone_logs; and
\* drone_logs holds only status messages and the audit rows of accepted
\* positions and commands.
C16_CommandWritesSlotAndAudit ==
    [][/\ \A p \in Procs :
            Steps(p, "post_cmd") =>
               /\ latest_target' = latest_target
               /\ (pc[p] = "idle" /\ pc'[p] = "done") => db' = db
               /\ pc[p] # "cmd_upd" => command_buffer' = command_buffer
               /\ pc[p] = "cmd_upd" =>
                     /\ command_buffer'.command = loc[p].data.s
                     /\ drone_logs' = drone_logs
               /\ pc[p] = "log_commit" => Appends(p, "Command Sent: " \o loc[p].data.s)
               /\ pc[p] \notin {"idle", "cmd_upd", "log_commit"} => drone_logs' = drone_logs
       /\ \A r \in drone_logs' :
            r.message \in {"m1", "New Target Received: 47.00000, 8.00000",
                           "Command Sent: HOVER", "Command Sent: RTH",
                           "Command Sent: LAND"}]_vars

C16_Witness ==
    \E p \in Procs :
        /\ Answered(p, "post_cmd")
        /\ resp[p].code = 200
        /\ command_buffer.command = "RTH"
        /\ ~latest_target.lat.null
        /\ \E r \in drone_logs : r.id = seq /\ r.message = "Command Sent: RTH"
        /\ \E r \in drone_logs : r.message = "New Target Received: 47.00000, 8.00000"

\* C17: a request of any of the six routes whose token is missing or wrong is
\* answered 401 "unauthorized" at once, changes nothing that is stored and
\* carries no content of a mailbox.
C17_BadTokenUnauthorized ==
    [][\A p \in Procs :
         (pc[p] = "idle" /\ pc'[p] # "idle" /\ loc'[p].token # APP_TOKEN) =>
            /\ pc'[p] = "done"
            /\ resp'[p] = Unauthorized
            /\ db' = db]_vars

\* C18: POST /drone/status always answers 200; without a message it changes
\* nothing; with a message, whatever it is, it goes on to append exactly one
\* row carrying that message.
C18_PresentMessageAppended ==
    [][\A p \in Procs :
         (loc'[p].op = "post_status" /\ loc'[p].token = APP_TOKEN) =>
            /\ pc'[p] = "done" => resp'[p] = [code |-> 200, ok |-> TRUE]
            /\ (pc[p] = "idle" /\ loc'[p].data = JNull) =>
                  (pc'[p] = "done" /\ db' = db)
            /\ (pc[p] = "idle" /\ loc'[p].data # JNull) => pc'[p] = "log_ts"
            /\ pc[p] = "log_commit" => Appends(p, loc[p].data.s)]_vars

\* Handler p has committed its UPDATE and is on its way through add_log_entry.
Logging(p, op) ==
    /\ loc[p].op = op
    /\ pc[p] \in {"log_ts", "log_ins", "log_del", "log_commit"}

\* C13: the UPDATE of an accepted POST /drone/cmd overwrites the
\* command_buffer row whatever it holds, and nothing else changes the row; so
\* the row is always the command and the timestamp of the one request whose
\* UPDATE committed last, every GET /drone/cmd reads that row, and answers
\* its command or none.
C13_LastWriteWins ==
    [][/\ \A p \in Procs :
            (Steps(p, "post_cmd") /\ pc[p] = "cmd_upd") =>
               command_buffer' = [command |-> loc[p].data.s,
                                  created_at |-> loc[p].at \div TicksPerSecond]
       /\ (\A p \in Procs : ~(Steps(p, "post_cmd") /\ pc[p] = "cmd_upd")) =>
            command_buffer' = command_buffer
       /\ cmd_hist'.any =>
            command_buffer' = [command |-> cmd_hist'.cmd,
                               created_at |-> cmd_hist'.at \div TicksPerSecond]
       /\ \A p \in Procs :
            (Steps(p, "get_cmd") /\ pc[p] = "idle") =>
               loc'[p].row.command = IF cmd_hist.any THEN cmd_hist.cmd ELSE "NONE"
       /\ \A p \in Procs :
            Answers(p, "get_cmd") =>
               resp'[p].command \in {PyNone, Some(loc'[p].row.command)}]_vars

\* A request that took its timestamp first committed last and won: the other
\* writer's command is gone, and a poll answers the winner's.
C13_Witness ==
    \E p, q \in Procs :
        /\ Answered(p, "get_cmd")
        /\ resp[p].command = Some("LAND")
        /\ command_buffer.command = "LAND"
        /\ Logging(q, "post_cmd")
        /\ loc[q].data = JStr("RTH")
        /\ cmd_hist.at < loc[q].at

\* What SQLite holds for a coordinate or an accuracy of a request body.
StoredReal(j) ==
    IF j.t = "num" THEN SqlVal(j.n)
    ELSE IF j.s = "nan" THEN SqlNull
    ELSE SqlVal(47)

\* C15: the latest_target row is the empty row until the first UPDATE commits,
\* and from then on holds the latitude, longitude, accuracy, request id and
\* timestamp of the one request whose UPDATE committed last; it is never the
\* empty row again.
C15_WholeRowOfOneWrite ==
    IF ~go_hist.any THEN latest_target = EmptyTarget
    ELSE /\ latest_target.lat = StoredReal(go_hist.data.lat)
         /\ latest_target.lon = StoredReal(go_hist.data.lon)
         /\ latest_target.accuracy = StoredReal(go_hist.data.accuracy)
         /\ latest_target.request_id =
               SqlVal(IF go_hist.data.request_id.t = "str"
                      THEN go_hist.data.request_id.s ELSE "None")
         /\ latest_target.created_at = SqlVal(go_hist.at \div TicksPerSecond)
         /\ latest_target # EmptyTarget

\* Two writes overlap; the one that took its timestamp first committed last,
\* over the other's row.
C15_Witness ==
    \E p, q \in Procs :
        /\ Logging(p, "go") /\ Logging(q, "go")
        /\ loc[p].data.request_id = JStr("r1")
        /\ loc[q].data.request_id = JStr("r2")
        /\ loc[p].at < loc[q].at
        /\ latest_target.request_id = SqlVal("r1")
        /\ latest_target.lat = SqlVal(47)

\* The row of drone_logs with the greatest id.
NewestLog == CHOOSE r \in drone_logs : \A y \in drone_logs : y.id <= r.id

\* C19: whenever no accepted /go is in progress and drone_logs is not empty,
\* the newest "New Target Received" row names the coordinates the
\* latest_target row holds (here every row of drone_logs is of that kind;
\* the rows of writes that carried no number are left aside).
C19_NewestAuditDescribesSlot ==
    (/\ \A p \in Procs : pc[p] \in {"idle", "done"}
     /\ drone_logs # {}
     /\ \A r \in drone_logs : r.message # "New Target Received: nan, 8.00000") =>
       NewestLog.message =
          IF latest_target.lat.null THEN "New Target Received: nan, 8.00000"
          ELSE IF latest_target.lat.v = 47
               THEN "New Target Received: 47.00000, 8.00000"
               ELSE "New Target Received: -90.00000, 180.00000"

\* C20: no committed write lowers the created_at of the command_buffer row or
\* of the latest_target row, and the age a GET /drone/cmd computes is never
\* negative.
C20_CreatedAtNeverDecreases ==
    [][/\ command_buffer'.created_at >= command_buffer.created_at
       /\ ~latest_target.created_at.null =>
             latest_target'.created_at.v >= latest_target.created_at.v
       /\ \A p \in Procs :
             (Answers(p, "get_cmd") /\ loc'[p].row.command # "NONE") =>
                TimeNow - loc'[p].row.created_at >= 0]_vars
====
